---- MODULE Spec2Model ----
(***************************************************************************)
(* Model of pyspaceweather.SpaceWeather (src/pyspaceweather/               *)
(* pyspaceweather.py): construction with the key probe, the eight get_*    *)
(* operations, the HTTP exchange of each, and the mapping of the decoded   *)
(* payload to namedtuple records.                                          *)
(*                                                                         *)
(* Strings and datetimes are values V(form, day, sec, us).  A string's     *)
(* form says how it is written ("full" = YYYY-MM-DD HH:mm:ss, "unpadded" = *)
(* the same fields without zero padding, "date" = YYYY-MM-DD, "other" =    *)
(* any other text, "empty" = ""); a datetime has form "datetime".          *)
(***************************************************************************)
EXTENDS Integers, Sequences, FiniteSets, TLC

\* ------------------------------------------------------------ bounds
MaxDay == 2
MaxSec == 1
MaxMicro == 1
MaxElems == 2
MaxActivity == 2
MaxThreads == 2

Days == 1..MaxDay
Secs == 0..MaxSec
Micros == 0..MaxMicro

\* ------------------------------------------------------------ values
V(form, d, s, u) == [form |-> form, day |-> d, sec |-> s, us |-> u]

EmptyStr == V("empty", 0, 0, 0)
OtherStr == V("other", 0, 0, 0)
None == V("None", 0, 0, 0)
FullStr(d, s) == V("full", d, s, 0)
UnpaddedStr(d, s) == V("unpadded", d, s, 0)
DateStr(d) == V("date", d, 0, 0)
Datetime(d, s, u) == V("datetime", d, s, u)
ValueError == V("ValueError", 0, 0, 0)
KeyError == V("KeyError", 0, 0, 0)
TypeError == V("TypeError", 0, 0, 0)

IsDatetime(v) == v.form = "datetime"
IsStr(v) == v.form \in {"empty", "other", "full", "unpadded", "date"}
IsExc(v) == v.form \in {"ValueError", "KeyError", "TypeError"}

\* self._time_format and self._time_format_with_minutes
time_format == "%Y-%m-%d"
time_format_with_minutes == "%Y-%m-%d %H:%M:%S"

\* datetime.strptime(s, fmt): the datetime the text denotes, or ValueError.
\* %m, %d, %H, %M, %S accept one or two digits, so unpadded fields parse;
\* text left over after the format (a time after a date) is an error, and
\* so is a format field the text lacks.  The result has microsecond 0.
\* An argument that is not a string (a datetime, None) is a TypeError.
strptime(s, fmt) ==
    IF ~IsStr(s) THEN TypeError
    ELSE IF fmt = time_format_with_minutes
    THEN IF s.form \in {"full", "unpadded"} THEN Datetime(s.day, s.sec, 0) ELSE ValueError
    ELSE IF s.form = "date" THEN Datetime(s.day, 0, 0) ELSE ValueError

\* (variant: the date-only format is used whatever format is asked for)
strftime_date_only(t, fmt) == DateStr(t.day)

\* datetime.strftime(t, "%Y-%m-%d %H:%M:%S"): zero padded, no microseconds.
strftime(t, fmt) ==
    IF fmt = time_format_with_minutes THEN FullStr(t.day, t.sec) ELSE DateStr(t.day)

\* ------------------------------------------------------------ HTTP
HTTP_OK == 200
HTTP_FORBIDDEN == 403
Statuses == {HTTP_OK, 201, 301, 400, HTTP_FORBIDDEN, 500}

\* requests.Response.raise_for_status(): HTTPError for 4xx and 5xx only.
raise_for_status(status) == 400 <= status /\ status < 600

ApiKeys == {"valid_api_key", "0000"}
NoKey == "<no client>"
AustralianRegion == "Australian region"
Locations == {AustralianRegion, "Hobart"}
Messages == {"Unsupported option value", "Internal error"}

\* ------------------------------------------------------------ payloads
\* A decoded element of `data`: id stands for its pass-through scalars
\* (cause, k_aus, lat_band, comments, g_scale, description, index), scalars
\* says whether those keys are present, ts maps each timestamp key that is
\* present to its string, activity is the mag-warning `activity` array.
Element(id, scalars, ts, activity) ==
    [id |-> id, scalars |-> scalars, ts |-> ts, activity |-> activity]

Forecasts == {"Unsettled to minor storm", "Quiet"}
DayPeriod(date, forecast) == [date |-> date, forecast |-> forecast]

\* ------------------------------------------------------------ records
\* A namedtuple: its class, its timestamp positions in order, its scalar
\* positions (id) and, for MagWarning, its activity position.
Record(kind, times, id, activity) ==
    [exc |-> "none", kind |-> kind, times |-> times, id |-> id, activity |-> activity]
Raised(exc) ==
    [exc |-> exc, kind |-> "none", times |-> <<>>, id |-> 0, activity |-> <<>>]

\* The field names of each namedtuple's timestamp positions.
FieldNames(kind) ==
    CASE kind = "AuroraOutlook" -> <<"issue_time", "start_time", "end_date">>
      [] kind = "AuroraWatch" -> <<"issue_time", "start_date", "end_date">>
      [] kind = "AuroraAlert" -> <<"start_time", "valid_until">>
      [] kind = "MagAlert" -> <<"start_time", "valid_until">>
      [] kind = "MagWarning" -> <<"issue_time", "start_date", "end_date">>
      [] kind = "AIndex" -> <<"valid_time">>
      [] kind = "KIndex" -> <<"valid_time", "analysis_time">>
      [] kind = "DstIndex" -> <<"valid_time">>

\* The field names of each namedtuple's remaining positions.
ScalarFieldNames(kind) ==
    CASE kind \in {"AuroraOutlook", "AuroraWatch"} -> <<"cause", "k_aus", "lat_band", "comments">>
      [] kind = "AuroraAlert" -> <<"k_aus", "lat_band", "description">>
      [] kind = "MagAlert" -> <<"g_scale", "description">>
      [] kind = "MagWarning" -> <<"cause", "activity", "comments">>
      [] kind \in {"AIndex", "KIndex", "DstIndex"} -> <<"index">>

\* The payload keys the code reads for those positions, in order.
SourceKeys(kind) ==
    CASE kind = "AuroraOutlook" -> <<"issue_time", "start_date", "end_date">>
      [] kind = "AuroraWatch" -> <<"issue_time", "start_date", "end_date">>
      [] kind = "AuroraAlert" -> <<"start_time", "valid_until">>
      [] kind = "MagAlert" -> <<"start_time", "valid_until">>
      [] kind = "MagWarning" -> <<"issue_time", "start_date", "end_date">>
      [] kind = "AIndex" -> <<"valid_time">>
      [] kind = "KIndex" -> <<"valid_time", "analysis_time">>
      [] kind = "DstIndex" -> <<"valid_time">>

\* The first exception among the values, in evaluation order, or "none".
RECURSIVE FirstExc(_)
FirstExc(vals) ==
    IF vals = <<>> THEN "none"
    ELSE IF IsExc(Head(vals)) THEN Head(vals).form
    ELSE FirstExc(Tail(vals))

\* try strptime(v, with minutes) except ValueError: strptime(v, date only)
two_formats(v) ==
    LET t == strptime(v, time_format_with_minutes)
    IN  IF t = ValueError THEN strptime(v, time_format) ELSE t

\* _get_aurora, one element.  time_periods starts as "" for the five keys;
\* a key the element lacks (KeyError) leaves the "" in place.
AuroraKeys == <<"issue_time", "start_date", "end_date", "start_time", "valid_until">>
AuroraKind(aurora_type) ==
    CASE aurora_type = "outlook" -> "AuroraOutlook"
      [] aurora_type = "watch" -> "AuroraWatch"
      [] aurora_type = "alert" -> "AuroraAlert"

aurora_time_period(aurora, key) ==
    IF key \in DOMAIN aurora.ts THEN two_formats(aurora.ts[key]) ELSE EmptyStr

map_aurora(aurora_type, aurora) ==
    LET time_periods == [i \in 1..Len(AuroraKeys) |-> aurora_time_period(aurora, AuroraKeys[i])]
        get(key) == time_periods[CHOOSE i \in 1..Len(AuroraKeys) : AuroraKeys[i] = key]
        kind == AuroraKind(aurora_type)
        keys == SourceKeys(kind)
    IN  IF FirstExc(time_periods) # "none" THEN Raised(FirstExc(time_periods))
        ELSE IF ~aurora.scalars THEN Raised("KeyError")
        ELSE Record(kind, [j \in 1..Len(keys) |-> get(keys[j])], aurora.id, <<>>)

\* get_mag_alert, one element: one format only, None for a missing key.
mag_alert_time_period(mag_alert, key) ==
    IF key \in DOMAIN mag_alert.ts
    THEN strptime(mag_alert.ts[key], time_format_with_minutes)
    ELSE None

\* get_mag_alert writes what it parsed back into the element it reads
\* (mag_alert[time_period] = time, or None): the element as the loop body
\* leaves it, the keys taken in order and an exception ending the body.
mag_alert_written(mag_alert) ==
    LET t1 == mag_alert_time_period(mag_alert, "start_time")
        t2 == mag_alert_time_period(mag_alert, "valid_until")
        put(ts, key, v) == [k \in DOMAIN ts \cup {key} |-> IF k = key THEN v ELSE ts[k]]
        ts1 == IF IsExc(t1) THEN mag_alert.ts ELSE put(mag_alert.ts, "start_time", t1)
        ts2 == IF IsExc(t1) \/ IsExc(t2) THEN ts1 ELSE put(ts1, "valid_until", t2)
    IN  [mag_alert EXCEPT !.ts = ts2]

map_mag_alert(mag_alert) ==
    LET keys == SourceKeys("MagAlert")
        times == [j \in 1..Len(keys) |-> mag_alert_time_period(mag_alert, keys[j])]
    IN  IF FirstExc(times) # "none" THEN Raised(FirstExc(times))
        ELSE IF ~mag_alert.scalars THEN Raised("KeyError")
        ELSE Record("MagAlert", times, mag_alert.id, <<>>)

\* get_mag_warning, one element: both formats, None for a missing key, and
\* one single-entry mapping {date: forecast} per entry of `activity`.
mag_warning_time_period(mag_warning, key) ==
    IF key \in DOMAIN mag_warning.ts THEN two_formats(mag_warning.ts[key]) ELSE None

day_date(day_period) == strptime(day_period.date, time_format)

\* (variant: one mapping keyed by date, a later entry replacing an earlier
\* one of the same date)
RECURSIVE days_merged(_)
days_merged(activity) ==
    IF activity = <<>> THEN <<>>
    ELSE LET n == Len(activity)
             rest == days_merged(SubSeq(activity, 1, n - 1))
             last == <<day_date(activity[n]), activity[n].forecast>>
         IN  IF \E i \in 1..Len(rest) : rest[i][1] = last[1]
             THEN [i \in 1..Len(rest) |-> IF rest[i][1] = last[1] THEN last ELSE rest[i]]
             ELSE Append(rest, last)

days_of(activity) ==
    [i \in 1..Len(activity) |-> <<day_date(activity[i]), activity[i].forecast>>]

map_mag_warning(mag_warning) ==
    LET keys == SourceKeys("MagWarning")
        times == [j \in 1..Len(keys) |-> mag_warning_time_period(mag_warning, keys[j])]
        dates == [i \in 1..Len(mag_warning.activity) |-> day_date(mag_warning.activity[i])]
    IN  IF FirstExc(times) # "none" THEN Raised(FirstExc(times))
        ELSE IF FirstExc(dates) # "none" THEN Raised(FirstExc(dates))
        ELSE IF ~mag_warning.scalars THEN Raised("KeyError")
        ELSE Record("MagWarning", times, mag_warning.id, days_of(mag_warning.activity))

\* _get_index, one element: one format only, and index_data[key] itself
\* raises KeyError for a missing key.
IndexKind(index_type) ==
    CASE index_type = "a-index" -> "AIndex"
      [] index_type = "k-index" -> "KIndex"
      [] index_type = "dst-index" -> "DstIndex"

index_time(index_data, key) ==
    IF key \in DOMAIN index_data.ts
    THEN strptime(index_data.ts[key], time_format_with_minutes)
    ELSE KeyError

map_index(index_type, index_data) ==
    LET kind == IndexKind(index_type)
        keys == SourceKeys(kind)
        times == [j \in 1..Len(keys) |-> index_time(index_data, keys[j])]
    IN  IF FirstExc(times) # "none" THEN Raised(FirstExc(times))
        ELSE IF ~index_data.scalars THEN Raised("KeyError")
        ELSE Record(kind, times, index_data.id, <<>>)

\* The endpoints, named as in the request URL (get-aurora-<type>, get-<name>).
AuroraTypes == {"outlook", "watch", "alert"}
IndexTypes == {"a-index", "k-index", "dst-index"}
Endpoints == AuroraTypes \cup {"mag-alert", "mag-warning"} \cup IndexTypes

KindOf(endpoint) ==
    CASE endpoint \in AuroraTypes -> AuroraKind(endpoint)
      [] endpoint = "mag-alert" -> "MagAlert"
      [] endpoint = "mag-warning" -> "MagWarning"
      [] endpoint \in IndexTypes -> IndexKind(endpoint)

map_element(endpoint, element) ==
    CASE endpoint \in AuroraTypes -> map_aurora(endpoint, element)
      [] endpoint = "mag-alert" -> map_mag_alert(element)
      [] endpoint = "mag-warning" -> map_mag_warning(element)
      [] endpoint \in IndexTypes -> map_index(endpoint, element)

\* (variant: an element whose mapping raises is skipped and the loop goes on)
RECURSIVE map_each_skipping(_, _, _)
map_each_skipping(endpoint, data, acc) ==
    IF data = <<>> THEN [exc |-> "none", records |-> acc]
    ELSE LET r == map_element(endpoint, Head(data))
         IN  IF r.exc # "none" THEN map_each_skipping(endpoint, Tail(data), acc)
             ELSE map_each_skipping(endpoint, Tail(data), Append(acc, r))

\* The loop over the element list: the records in order, or the first
\* exception, which ends the call.
RECURSIVE map_each(_, _, _)
map_each(endpoint, data, acc) ==
    IF data = <<>> THEN [exc |-> "none", records |-> acc]
    ELSE LET r == map_element(endpoint, Head(data))
         IN  IF r.exc # "none" THEN [exc |-> r.exc, records |-> <<>>]
             ELSE map_each(endpoint, Tail(data), Append(acc, r))

\* The decoded `data` as the loop leaves it: get_mag_alert has written to
\* every element it reached; the other methods only read.
RECURSIVE data_after(_, _)
data_after(endpoint, data) ==
    IF endpoint # "mag-alert" \/ data = <<>> THEN data
    ELSE IF map_mag_alert(Head(data)).exc # "none"
         THEN <<mag_alert_written(Head(data))>> \o Tail(data)
         ELSE <<mag_alert_written(Head(data))>> \o data_after(endpoint, Tail(data))

\* ------------------------------------------------------------ responses
\* An HTTP response: its status, whether its body decodes as JSON, the
\* body's `message` (error bodies), whether the body has a `data` key
\* ("absent"), holds null for it ("null") or a list ("list"), and the list.
Response(status, json, message, data, list) ==
    [status |-> status, json |-> json, message |-> message, data |-> data, list |-> list]
NoResponse == Response(0, FALSE, "", "absent", <<>>)

\* (variant: the last nested list, data[-1], instead of the first)
element_list_last(endpoint, resp) ==
    IF endpoint \in {"a-index", "dst-index"} THEN resp.list[Len(resp.list)] ELSE resp.list

\* The element list the code iterates: data[0] for the A and Dst indices.
element_list(endpoint, resp) ==
    IF endpoint \in {"a-index", "dst-index"} THEN resp.list[1] ELSE resp.list

\* `if data := response.json()["data"]`: a non-empty list is true.
truthy(resp) == resp.data = "list" /\ resp.list # <<>>

\* What a get_* method does with the response; payload is the decoded
\* `data` list as the method leaves it.
Outcome(op, exc, msg, records, resp) ==
    [op |-> op, exc |-> exc, msg |-> msg, records |-> records, resp |-> resp,
     payload |-> resp.list]
NoOutcome == Outcome("none", "none", "", <<>>, NoResponse)

InvalidKeyMsg == "HTTP Error 403 - please pass a valid API key."
TimeRangeMsg == "Please provide a string in the format YYYY-MM-DD HH:mm:ss or a datetime object."

status_check_fails(resp) == resp.status # HTTP_OK

handle_response(endpoint, resp) ==
    IF status_check_fails(resp)
    THEN IF resp.json THEN Outcome(endpoint, "HTTPError", resp.message, <<>>, resp)
         ELSE Outcome(endpoint, "JSONDecodeError", "", <<>>, resp)
    ELSE IF ~resp.json THEN Outcome(endpoint, "JSONDecodeError", "", <<>>, resp)
    ELSE IF resp.data = "absent" THEN Outcome(endpoint, "KeyError", "data", <<>>, resp)
    ELSE IF ~truthy(resp) THEN Outcome(endpoint, "none", "", <<>>, resp)
    ELSE LET m == map_each(endpoint, element_list(endpoint, resp), <<>>)
         IN  [Outcome(endpoint, m.exc, "", m.records, resp)
                 EXCEPT !.payload = data_after(endpoint, resp.list)]

\* ---- the responses the service is taken to give
Range(f) == {f[i] : i \in DOMAIN f}
KeysOf(endpoint) == Range(SourceKeys(KindOf(endpoint)))

\* The documented form of a key's value: a date for *_date, else a time.
Documented(key) == IF key \in {"start_date", "end_date"} THEN DateStr(1) ELSE FullStr(1, 0)
DefaultActivity(endpoint) ==
    IF endpoint = "mag-warning" THEN <<DayPeriod(DateStr(1), "Quiet")>> ELSE <<>>
BaseElement(endpoint, id) ==
    Element(id, TRUE, [k \in KeysOf(endpoint) |-> Documented(k)], DefaultActivity(endpoint))

\* The values a present timestamp key may hold, around one point in time:
\* the full time, its date, or other text.
ProbeValues(d, s) == {FullStr(d, s), DateStr(d), OtherStr}

DayPeriods ==
    {DayPeriod(v, f) : v \in {DateStr(d) : d \in Days} \cup {FullStr(1, 0), OtherStr},
                       f \in Forecasts}

\* A list of n elements, the p-th of them `probe`, the others as documented;
\* an element's id is its place in the list.
ElementList(endpoint, n, p, probe) ==
    [i \in 1..n |-> IF i = p THEN probe ELSE BaseElement(endpoint, i)]

\* `data` as the endpoint nests it: the A and Dst indices wrap the list in
\* an outer list, which may hold more lists after it.
DataOf(endpoint, list, more) ==
    IF endpoint \in {"a-index", "dst-index"}
    THEN IF more THEN <<list, <<BaseElement(endpoint, MaxElems + 1)>>>> ELSE <<list>>
    ELSE list

PlainResponses(endpoint) ==
    {Response(s, TRUE, m, "absent", <<>>) : s \in Statuses \ {HTTP_OK}, m \in Messages}
    \cup {Response(s, FALSE, "", "absent", <<>>) : s \in Statuses}
    \cup {Response(HTTP_OK, TRUE, "", d, <<>>) : d \in {"absent", "null", "list"}}
    \cup IF endpoint \in {"a-index", "dst-index"}
         THEN {Response(HTTP_OK, TRUE, "", "list", <<<<>>>>)}
         ELSE {}

\* ------------------------------------------------------------ state
VARIABLES
    api_key,    \* self.api_key of the client, NoKey while there is no client
    pc,         \* "idle", "posting" (the request is on its way), "waiting"
                \* (the service has it, the response is on its way) or "done"
    call,       \* the invocation in progress: operation and arguments
    inflight,   \* the request on its way to the service, or NoRequest
    awaiting,   \* the endpoint whose response the invocation waits for
    posts,      \* requests.post calls made by the invocation so far
    outcome     \* how the invocation ended: records or exception

vars == <<api_key, pc, call, inflight, awaiting, posts, outcome>>

LocNone == "<None>"
Call(op, key, start, end, location) ==
    [op |-> op, key |-> key, start |-> start, end |-> end, location |-> location]
NoCall == Call("none", NoKey, EmptyStr, EmptyStr, LocNone)

Request(endpoint, key, options, location, start, end) ==
    [endpoint |-> endpoint, api_key |-> key, options |-> options,
     location |-> location, start |-> start, end |-> end]
NoRequest == Request("none", NoKey, "none", LocNone, EmptyStr, EmptyStr)

\* What a caller may pass as start or end.
Args ==
    {EmptyStr, OtherStr}
    \cup {FullStr(d, s) : <<d, s>> \in Days \X Secs}
    \cup {UnpaddedStr(d, s) : <<d, s>> \in Days \X Secs}
    \cup {DateStr(d) : d \in Days}
    \cup {Datetime(d, s, u) : <<d, s, u>> \in Days \X Secs \X Micros}

Init ==
    /\ api_key = NoKey
    /\ pc = "idle"
    /\ call = NoCall
    /\ inflight = NoRequest
    /\ awaiting = "none"
    /\ posts = 0
    /\ outcome = NoOutcome

\* ---- construction: __init__ calls _verify_api_key, which posts the probe
init(key) ==
    /\ pc = "idle"
    /\ api_key = NoKey
    /\ call' = Call("__init__", key, EmptyStr, EmptyStr, LocNone)
    /\ inflight' = Request("k-index", key, "location", AustralianRegion, EmptyStr, EmptyStr)
    /\ posts' = posts + 1
    /\ pc' = "posting"
    /\ UNCHANGED <<api_key, awaiting, outcome>>

\* _verify_api_key after the probe's response: 403, raise_for_status, return.
verify_api_key(status) ==
    IF status = HTTP_FORBIDDEN THEN [exc |-> "ValueError", msg |-> InvalidKeyMsg]
    ELSE IF raise_for_status(status) THEN [exc |-> "HTTPError", msg |-> ""]
    ELSE [exc |-> "none", msg |-> ""]

init_returns(resp) ==
    /\ pc = "waiting"
    /\ call.op = "__init__"
    /\ LET v == verify_api_key(resp.status)
       IN  /\ api_key' = IF v.exc = "none" THEN call.key ELSE NoKey
           /\ outcome' = Outcome("__init__", v.exc, v.msg, <<>>, resp)
    /\ awaiting' = "none"
    /\ pc' = "done"
    /\ UNCHANGED <<call, inflight, posts>>

\* ---- the endpoints without options: one POST carrying the credential
post_plain(op, endpoint) ==
    /\ pc = "idle"
    /\ api_key # NoKey
    /\ call' = Call(op, NoKey, EmptyStr, EmptyStr, LocNone)
    /\ inflight' = Request(endpoint, api_key, "none", LocNone, EmptyStr, EmptyStr)
    /\ posts' = posts + 1
    /\ pc' = "posting"
    /\ UNCHANGED <<api_key, awaiting, outcome>>

get_aurora(aurora_type) == post_plain("get_aurora_" \o aurora_type, aurora_type)

get_aurora_outlook ==
    /\ pc = "idle"
    /\ get_aurora("outlook")

get_aurora_watch ==
    /\ pc = "idle"
    /\ get_aurora("watch")

get_aurora_alert ==
    /\ pc = "idle"
    /\ get_aurora("alert")

get_mag_alert ==
    /\ pc = "idle"
    /\ post_plain("get_mag_alert", "mag-alert")

get_mag_warning ==
    /\ pc = "idle"
    /\ post_plain("get_mag_warning", "mag-warning")

\* ---- _get_index: start and end are checked, start first, then the POST
check_argument(arg) ==
    IF IsDatetime(arg) THEN strftime(arg, time_format_with_minutes)
    ELSE IF arg # EmptyStr
         THEN IF strptime(arg, time_format_with_minutes) = ValueError THEN ValueError ELSE arg
         ELSE arg

\* (variant: only start is checked before the POST)
get_index_end_unchecked(op, index_type, start, end, location) ==
    /\ pc = "idle"
    /\ api_key # NoKey
    /\ IF check_argument(start) = ValueError
       THEN /\ outcome' = Outcome(op, "ValueError", TimeRangeMsg, <<>>, NoResponse)
            /\ pc' = "done"
            /\ UNCHANGED <<inflight, posts>>
       ELSE /\ inflight' = Request(index_type, api_key, "full", location,
                                   check_argument(start), end)
            /\ posts' = posts + 1
            /\ pc' = "posting"
            /\ UNCHANGED outcome
    /\ UNCHANGED <<api_key, awaiting>>

get_index(op, index_type, start, end, location) ==
    /\ pc = "idle"
    /\ api_key # NoKey
    /\ IF check_argument(start) = ValueError \/ check_argument(end) = ValueError
       THEN /\ outcome' = Outcome(op, "ValueError", TimeRangeMsg, <<>>, NoResponse)
            /\ pc' = "done"
            /\ UNCHANGED <<inflight, posts>>
       ELSE /\ inflight' = Request(index_type, api_key, "full", location,
                                   check_argument(start), check_argument(end))
            /\ posts' = posts + 1
            /\ pc' = "posting"
            /\ UNCHANGED outcome
    /\ UNCHANGED <<api_key, awaiting>>

\* The public index methods, called with any start, end (and location);
\* call records the arguments as the caller gave them.
get_a_index ==
    /\ pc = "idle"
    /\ \E start \in Args, end \in Args :
          /\ call' = Call("get_a_index", NoKey, start, end, LocNone)
          /\ get_index("get_a_index", "a-index", start, end, AustralianRegion)

get_dst_index ==
    /\ pc = "idle"
    /\ \E start \in Args, end \in Args :
          /\ call' = Call("get_dst_index", NoKey, start, end, LocNone)
          /\ get_index("get_dst_index", "dst-index", start, end, AustralianRegion)

\* (variant: the location argument is not passed on)
get_k_index_location_ignored ==
    /\ pc = "idle"
    /\ \E start \in Args, end \in Args, location \in Locations \cup {LocNone} :
          /\ call' = Call("get_k_index", NoKey, start, end, location)
          /\ get_index("get_k_index", "k-index", start, end, AustralianRegion)

get_k_index ==
    /\ pc = "idle"
    /\ \E start \in Args, end \in Args, location \in Locations \cup {LocNone} :
          /\ call' = Call("get_k_index", NoKey, start, end, location)
          /\ IF location = LocNone
             THEN get_index("get_k_index", "k-index", start, end, AustralianRegion)
             ELSE get_index("get_k_index", "k-index", start, end, location)

\* ---- the request reaches the service.  requests.post blocks meanwhile;
\* the method reads none of its arguments again (only the endpoint).
service_receives ==
    /\ pc = "posting"
    /\ awaiting' = inflight.endpoint
    /\ inflight' = NoRequest
    /\ call' = Call(call.op, call.key, EmptyStr, EmptyStr, LocNone)
    /\ pc' = "waiting"
    /\ UNCHANGED <<api_key, posts, outcome>>

\* ---- the response arrives: status check, decoding, mapping
receive(resp) == outcome' = [handle_response(awaiting, resp) EXCEPT !.op = call.op]

\* (variant: a response whose status check fails makes the method post again)
returns_retrying(endpoints) ==
    /\ pc = "waiting"
    /\ call.op # "__init__"
    /\ awaiting \in endpoints
    /\ \E resp \in PlainResponses(awaiting) :
          IF status_check_fails(resp)
          THEN /\ inflight' = Request(awaiting, api_key, "none", LocNone, EmptyStr, EmptyStr)
               /\ posts' = posts + 1
               /\ pc' = "posting"
               /\ UNCHANGED <<api_key, call, awaiting, outcome>>
          ELSE /\ receive(resp)
               /\ awaiting' = "none"
               /\ pc' = "done"
               /\ UNCHANGED <<api_key, call, inflight, posts>>

returns(endpoints) ==
    /\ pc = "waiting"
    /\ call.op # "__init__"
    /\ awaiting \in endpoints
    /\ \/ \E resp \in PlainResponses(awaiting) : receive(resp)
       \/ \E n \in 1..MaxElems, p \in 1..MaxElems, S \in SUBSET KeysOf(awaiting),
             d \in Days, s \in Secs, scalars \in BOOLEAN, more \in BOOLEAN :
             /\ p <= n
             /\ more => awaiting \in {"a-index", "dst-index"}
             /\ \E ts \in [S -> ProbeValues(d, s)] :
                   receive(Response(HTTP_OK, TRUE, "", "list",
                       DataOf(awaiting,
                              ElementList(awaiting, n, p,
                                  Element(p, scalars, ts, DefaultActivity(awaiting))),
                              more)))
       \/ \E n \in 1..MaxElems, p \in 1..MaxElems, k \in 0..MaxActivity :
             /\ p <= n
             /\ awaiting = "mag-warning"
             /\ \E activity \in [1..k -> DayPeriods] :
                   receive(Response(HTTP_OK, TRUE, "", "list",
                       ElementList(awaiting, n, p,
                           Element(p, TRUE, BaseElement(awaiting, p).ts, activity))))
    /\ awaiting' = "none"
    /\ pc' = "done"
    /\ UNCHANGED <<api_key, call, inflight, posts>>

get_aurora_returns ==
    /\ pc = "waiting"
    /\ returns(AuroraTypes)

get_mag_alert_returns ==
    /\ pc = "waiting"
    /\ returns({"mag-alert"})

get_mag_warning_returns ==
    /\ pc = "waiting"
    /\ returns({"mag-warning"})

get_index_returns ==
    /\ pc = "waiting"
    /\ returns(IndexTypes)

\* ---- the caller has the result (or the exception) and may call again
caller_continues ==
    /\ pc = "done"
    /\ pc' = "idle"
    /\ call' = NoCall
    /\ posts' = 0
    /\ outcome' = NoOutcome
    /\ UNCHANGED <<api_key, inflight, awaiting>>

Next ==
    \/ \E key \in ApiKeys : init(key)
    \/ \E s \in Statuses : init_returns(Response(s, FALSE, "", "absent", <<>>))
    \/ get_aurora_outlook
    \/ get_aurora_watch
    \/ get_aurora_alert
    \/ get_mag_alert
    \/ get_mag_warning
    \/ get_a_index
    \/ get_dst_index
    \/ get_k_index
    \/ service_receives
    \/ get_aurora_returns
    \/ get_mag_alert_returns
    \/ get_mag_warning_returns
    \/ get_index_returns
    \/ caller_continues

Spec == Init /\ [][Next]_vars

\* ---- the index methods against a mock service that echoes the request:
\* the one element of its response carries the `start` (or the `end`) it
\* was sent in every timestamp key, and id 1 (start) or 2 (end).
EchoResponse(request, which) ==
    LET sent == IF which = 1 THEN request.start ELSE request.end
        ts == [k \in KeysOf(request.endpoint) |-> sent]
    IN  Response(HTTP_OK, TRUE, "", "list",
                 DataOf(request.endpoint, <<Element(which, TRUE, ts, <<>>)>>, FALSE))

mock_echoes ==
    /\ pc = "posting"
    /\ call.op \in {"get_a_index", "get_k_index", "get_dst_index"}
    /\ \E which \in {1, 2} :
          outcome' = [handle_response(inflight.endpoint, EchoResponse(inflight, which))
                         EXCEPT !.op = call.op]
    /\ inflight' = NoRequest
    /\ pc' = "done"
    /\ UNCHANGED <<api_key, call, awaiting, posts>>

probe_received ==
    /\ pc = "posting"
    /\ call.op = "__init__"
    /\ service_receives

NextEcho ==
    \/ \E key \in ApiKeys : init(key)
    \/ probe_received
    \/ \E s \in Statuses : init_returns(Response(s, FALSE, "", "absent", <<>>))
    \/ get_a_index
    \/ get_dst_index
    \/ get_k_index
    \/ mock_echoes
    \/ caller_continues

SpecEcho == Init /\ [][NextEcho]_vars

\* ---- calls interleaved: threads of an embedding application share the
\* clients.  In this specification api_key maps each client to its
\* self.api_key, and pc, call, inflight, awaiting, posts and outcome map
\* each thread to the locals of the method it runs: call[t] its client and
\* arguments, inflight[t] the request it built, awaiting[t] the response
\* requests.post returned to it, outcome[t] what the method returned or raised.
Threads == 1..MaxThreads
Clients == {"client_1", "client_2"}
ClientKey(c) == IF c = "client_1" THEN "valid_api_key" ELSE "0000"
ThreadCall(c, args) == [client |-> c, args |-> args]
ThreadArgs == {OtherStr, FullStr(1, 0)}
ThreadResponses(endpoint) ==
    {Response(500, TRUE, "Internal error", "absent", <<>>),
     Response(HTTP_OK, TRUE, "", "list", <<BaseElement(endpoint, 1)>>)}

InitThreads ==
    /\ api_key = [c \in Clients |-> NoKey]
    /\ pc = [t \in Threads |-> "idle"]
    /\ call = [t \in Threads |-> ThreadCall("client_1", NoCall)]
    /\ inflight = [t \in Threads |-> NoRequest]
    /\ awaiting = [t \in Threads |-> NoResponse]
    /\ posts = [t \in Threads |-> 0]
    /\ outcome = [t \in Threads |-> NoOutcome]

\* SpaceWeather(key) run by thread t; the object is c once __init__ returns
thread_init(t, c) ==
    /\ pc[t] = "idle"
    /\ api_key[c] = NoKey
    /\ \A u \in Threads : pc[u] # "idle" /\ call[u].args.op = "__init__" => call[u].client # c
    /\ call' = [call EXCEPT ![t] =
                   ThreadCall(c, Call("__init__", ClientKey(c), EmptyStr, EmptyStr, LocNone))]
    /\ inflight' = [inflight EXCEPT ![t] =
                       Request("k-index", ClientKey(c), "location", AustralianRegion,
                               EmptyStr, EmptyStr)]
    /\ posts' = [posts EXCEPT ![t] = @ + 1]
    /\ pc' = [pc EXCEPT ![t] = "waiting"]
    /\ UNCHANGED <<api_key, awaiting, outcome>>

thread_init_returns(t, status) ==
    /\ pc[t] = "waiting"
    /\ call[t].args.op = "__init__"
    /\ LET v == verify_api_key(status)
           resp == Response(status, FALSE, "", "absent", <<>>)
       IN  /\ api_key' = [api_key EXCEPT ![call[t].client] =
                             IF v.exc = "none" THEN call[t].args.key ELSE NoKey]
           /\ outcome' = [outcome EXCEPT ![t] = Outcome("__init__", v.exc, v.msg, <<>>, resp)]
           /\ awaiting' = [awaiting EXCEPT ![t] = resp]
    /\ pc' = [pc EXCEPT ![t] = "done"]
    /\ UNCHANGED <<call, inflight, posts>>

\* c.get_mag_alert() run by thread t, up to requests.post
thread_get_mag_alert(t, c) ==
    /\ pc[t] = "idle"
    /\ api_key[c] # NoKey
    /\ call' = [call EXCEPT ![t] =
                   ThreadCall(c, Call("get_mag_alert", NoKey, EmptyStr, EmptyStr, LocNone))]
    /\ inflight' = [inflight EXCEPT ![t] =
                       Request("mag-alert", api_key[c], "none", LocNone, EmptyStr, EmptyStr)]
    /\ posts' = [posts EXCEPT ![t] = @ + 1]
    /\ pc' = [pc EXCEPT ![t] = "waiting"]
    /\ UNCHANGED <<api_key, awaiting, outcome>>

\* c.get_k_index(start) run by thread t, up to requests.post
thread_get_k_index(t, c, start) ==
    /\ pc[t] = "idle"
    /\ api_key[c] # NoKey
    /\ call' = [call EXCEPT ![t] =
                   ThreadCall(c, Call("get_k_index", NoKey, start, EmptyStr, LocNone))]
    /\ IF check_argument(start) = ValueError
       THEN /\ outcome' = [outcome EXCEPT ![t] =
                    Outcome("get_k_index", "ValueError", TimeRangeMsg, <<>>, NoResponse)]
            /\ pc' = [pc EXCEPT ![t] = "done"]
            /\ UNCHANGED <<inflight, posts>>
       ELSE /\ inflight' = [inflight EXCEPT ![t] =
                    Request("k-index", api_key[c], "full", AustralianRegion,
                            check_argument(start), EmptyStr)]
            /\ posts' = [posts EXCEPT ![t] = @ + 1]
            /\ pc' = [pc EXCEPT ![t] = "waiting"]
            /\ UNCHANGED outcome
    /\ UNCHANGED <<api_key, awaiting>>

\* requests.post returns to thread t the response to the request it made
thread_receives(t, resp) ==
    /\ pc[t] = "waiting"
    /\ call[t].args.op # "__init__"
    /\ awaiting' = [awaiting EXCEPT ![t] = resp]
    /\ pc' = [pc EXCEPT ![t] = "received"]
    /\ UNCHANGED <<api_key, call, inflight, posts, outcome>>

requests_post_returns(t) ==
    /\ pc[t] = "waiting"
    /\ \E resp \in ThreadResponses(inflight[t].endpoint) : thread_receives(t, resp)

\* (variant: the response is kept where every thread of the client finds
\* it, and the method maps whichever response arrived)
thread_maps_shared(t) ==
    /\ pc[t] = "received"
    /\ \E u \in Threads :
          /\ pc[u] = "received"
          /\ inflight[u].endpoint = inflight[t].endpoint
          /\ outcome' = [outcome EXCEPT ![t] =
                 [handle_response(inflight[t].endpoint, awaiting[u])
                     EXCEPT !.op = call[t].args.op]]
    /\ pc' = [pc EXCEPT ![t] = "done"]
    /\ UNCHANGED <<api_key, call, inflight, awaiting, posts>>

\* the rest of the method in thread t: status check, decoding, mapping
thread_maps(t) ==
    /\ pc[t] = "received"
    /\ outcome' = [outcome EXCEPT ![t] =
           [handle_response(inflight[t].endpoint, awaiting[t])
               EXCEPT !.op = call[t].args.op]]
    /\ pc' = [pc EXCEPT ![t] = "done"]
    /\ UNCHANGED <<api_key, call, inflight, awaiting, posts>>

thread_continues(t) ==
    /\ pc[t] = "done"
    /\ pc' = [pc EXCEPT ![t] = "idle"]
    /\ call' = [call EXCEPT ![t] = ThreadCall("client_1", NoCall)]
    /\ inflight' = [inflight EXCEPT ![t] = NoRequest]
    /\ awaiting' = [awaiting EXCEPT ![t] = NoResponse]
    /\ posts' = [posts EXCEPT ![t] = 0]
    /\ outcome' = [outcome EXCEPT ![t] = NoOutcome]
    /\ UNCHANGED api_key

NextThreads ==
    \/ \E t \in Threads, c \in Clients : thread_init(t, c)
    \/ \E t \in Threads, status \in {HTTP_OK, HTTP_FORBIDDEN} : thread_init_returns(t, status)
    \/ \E t \in Threads, c \in Clients : thread_get_mag_alert(t, c)
    \/ \E t \in Threads, c \in Clients, start \in ThreadArgs : thread_get_k_index(t, c, start)
    \/ \E t \in Threads : requests_post_returns(t)
    \/ \E t \in Threads : thread_maps(t)
    \/ \E t \in Threads : thread_continues(t)

SpecThreads == InitThreads /\ [][NextThreads]_vars

\* ------------------------------------------------------------ claims
\* The error kinds of the specification, as the code raises them.
RequestFailed == "HTTPError"
InvalidCredential == [exc |-> "ValueError", msg |-> InvalidKeyMsg]
MalformedTimeRange == [exc |-> "ValueError", msg |-> TimeRangeMsg]
MalformedResponse == [exc |-> "ValueError", msg |-> ""]
Error(o) == [exc |-> o.exc, msg |-> o.msg]

EndpointOps ==
    {"get_aurora_outlook", "get_aurora_watch", "get_aurora_alert", "get_mag_alert",
     "get_mag_warning", "get_a_index", "get_k_index", "get_dst_index"}
IndexOps == {"get_a_index", "get_k_index", "get_dst_index"}
NestedOps == {"get_a_index", "get_dst_index"}

\* The record kind that belongs to each operation.
KindOfOp(op) ==
    CASE op = "get_aurora_outlook" -> "AuroraOutlook"
      [] op = "get_aurora_watch" -> "AuroraWatch"
      [] op = "get_aurora_alert" -> "AuroraAlert"
      [] op = "get_mag_alert" -> "MagAlert"
      [] op = "get_mag_warning" -> "MagWarning"
      [] op = "get_a_index" -> "AIndex"
      [] op = "get_k_index" -> "KIndex"
      [] op = "get_dst_index" -> "DstIndex"

\* An endpoint operation has ended after a response came back.
Answered == pc = "done" /\ outcome.op \in EndpointOps /\ outcome.resp # NoResponse
\* ... and the response was a 200 with a non-empty `data` list.
AnsweredWithData ==
    /\ Answered
    /\ outcome.resp.status = 200
    /\ outcome.resp.json
    /\ outcome.resp.data = "list"
    /\ outcome.resp.list # <<>>
\* The element list of that response, as the specification nests it.
Elements ==
    IF outcome.op \in NestedOps THEN outcome.resp.list[1] ELSE outcome.resp.list
Keys == SourceKeys(KindOfOp(outcome.op))
Returned == outcome.exc = "none"

\* C1: for every endpoint operation, a 200 response whose `data` is empty
\* or absent yields an empty sequence, never an error.
C1_EmptyOrAbsentDataYieldsEmpty ==
    (/\ Answered
     /\ outcome.resp.status = 200
     /\ outcome.resp.json
     /\ \/ outcome.resp.data \in {"absent", "null"}
        \/ outcome.resp.data = "list" /\ outcome.resp.list = <<>>)
    => Returned /\ outcome.records = <<>>

\* C2: construction fails with InvalidCredential on 403, with RequestFailed
\* on every other status that is not 200, and succeeds only on 200.
C2_ConstructionSucceedsOnlyOn200 ==
    (pc = "done" /\ outcome.op = "__init__")
    => /\ outcome.resp.status = 403 => Error(outcome) = InvalidCredential
       /\ outcome.resp.status \notin {200, 403} => outcome.exc = RequestFailed
       /\ Returned => outcome.resp.status = 200

\* C3: every endpoint call whose response status is not 200 fails with
\* RequestFailed, whether or not the body decodes, and carries the decoded
\* body when it does.
C3_Non200IsRequestFailed ==
    (Answered /\ outcome.resp.status # 200)
    => /\ outcome.exc = RequestFailed
       /\ outcome.resp.json => outcome.msg = outcome.resp.message

\* C4: an index call whose start or end is a non-empty string that does not
\* match YYYY-MM-DD HH:mm:ss (as strptime matches it: the fields in that
\* order, zero padded or not) fails with MalformedTimeRange, and has issued
\* no request when it fails.
MatchesFormat(a) == a.form \in {"full", "unpadded"}
BadArgument(a) == IsStr(a) /\ a # EmptyStr /\ ~MatchesFormat(a)

AllKeysPresent == \A i \in DOMAIN Elements : DOMAIN Elements[i].ts = Range(Keys)
WellFormedApartFromTimes ==
    \A i \in DOMAIN Elements :
        /\ Elements[i].scalars
        /\ \A j \in DOMAIN Elements[i].activity : Elements[i].activity[j].date.form = "date"

C5_BothFormatsParseInEveryKind ==
    (/\ AnsweredWithData
     /\ AllKeysPresent
     /\ WellFormedApartFromTimes
     /\ \A i \in DOMAIN Elements : \A k \in DOMAIN Elements[i].ts :
            Elements[i].ts[k].form \in {"full", "date"})
    => /\ Returned
       /\ Len(outcome.records) = Len(Elements)
       /\ \A i \in DOMAIN Elements : \A j \in DOMAIN Keys :
            LET v == Elements[i].ts[Keys[j]]
            IN  outcome.records[i].times[j] =
                    IF v.form = "full" THEN Datetime(v.day, v.sec, 0)
                    ELSE Datetime(v.day, 0, 0)

\* C6: for every endpoint, an element that lacks a timestamp key does not
\* make the call fail: its record holds an absent marker in that field.
PresentTimesAsDocumented ==
    \A i \in DOMAIN Elements : \A k \in DOMAIN Elements[i].ts :
        Elements[i].ts[k].form = Documented(k).form

C6_MissingKeyYieldsAbsentMarker ==
    (/\ AnsweredWithData
     /\ WellFormedApartFromTimes
     /\ PresentTimesAsDocumented)
    => /\ Returned
       /\ Len(outcome.records) = Len(Elements)
       /\ \A i \in DOMAIN Elements : \A j \in DOMAIN Keys :
            Keys[j] \notin DOMAIN Elements[i].ts
            => outcome.records[i].times[j] \in {None, EmptyStr}

\* C7: every timestamp field of every returned record is a parsed point in
\* time or the absent marker, never a string.
C7_TimestampFieldsAreNeverStrings ==
    (Answered /\ Returned)
    => \A i \in DOMAIN outcome.records : \A j \in DOMAIN outcome.records[i].times :
            LET v == outcome.records[i].times[j]
            IN  IsDatetime(v) \/ v = None

\* C8: a timestamp key that is present with a value matching neither format
\* makes the call fail with MalformedResponse; such a value never becomes an
\* absent marker, and a missing key is never reported as MalformedResponse.
\* (Stated for elements that carry their scalar fields.)
ScalarsPresent == \A i \in DOMAIN Elements : Elements[i].scalars
SomeTimeMatchesNeither ==
    \E i \in DOMAIN Elements : \E k \in DOMAIN Elements[i].ts :
        Elements[i].ts[k].form \notin {"full", "unpadded", "date"}

C8_UnparsableIsMalformedMissingIsNot ==
    (AnsweredWithData /\ ScalarsPresent)
    => /\ SomeTimeMatchesNeither => Error(outcome) = MalformedResponse
       /\ Returned => ~SomeTimeMatchesNeither
       /\ (WellFormedApartFromTimes /\ PresentTimesAsDocumented)
              => Error(outcome) # MalformedResponse

\* C9: the element list is data[0] for get_a_index and get_dst_index and
\* data itself elsewhere; the result has one record per element, the i-th
\* built from the i-th element, each of the kind of the called endpoint.
C9_OneRecordPerElementInOrder ==
    (AnsweredWithData /\ Returned)
    => /\ Len(outcome.records) = Len(Elements)
       /\ \A i \in DOMAIN Elements :
            /\ outcome.records[i].kind = KindOfOp(outcome.op)
            /\ outcome.records[i].id = Elements[i].id
            /\ \A j \in DOMAIN Keys :
                 (Keys[j] \in DOMAIN Elements[i].ts)
                 => /\ IsDatetime(outcome.records[i].times[j])
                    /\ outcome.records[i].times[j].day = Elements[i].ts[Keys[j]].day

C9_Witness ==
    /\ AnsweredWithData
    /\ Returned
    /\ outcome.op = "get_a_index"
    /\ Len(outcome.resp.list) = 2
    /\ Len(outcome.records) = 2
    /\ outcome.records[2].times[1].day = 2

\* C10: a MagWarning record's activity has exactly one (parsed date,
\* forecast) pair per entry of the element's `activity` array, in input
\* order; entries that share a date are all kept.
C10_ActivityKeepsEveryEntryInOrder ==
    (AnsweredWithData /\ Returned /\ outcome.op = "get_mag_warning")
    => \A i \in DOMAIN Elements :
          LET activity == Elements[i].activity
              days == outcome.records[i].activity
          IN  /\ Len(days) = Len(activity)
              /\ \A j \in DOMAIN activity :
                    days[j] = <<Datetime(activity[j].date.day, 0, 0), activity[j].forecast>>

C10_Witness ==
    /\ AnsweredWithData
    /\ Returned
    /\ outcome.op = "get_mag_warning"
    /\ \E i \in DOMAIN outcome.records :
          LET days == outcome.records[i].activity
          IN  /\ Len(days) = 2
              /\ days[1][1] = days[2][1]
              /\ days[1][2] # days[2][2]

\* C11: the location of an index request is, for get_k_index, the caller's
\* location argument when one is given and "Australian region" when none
\* is; for get_a_index and get_dst_index it is always "Australian region".
C11_LocationSentIsArgumentOrDefault ==
    (pc = "posting" /\ call.op \in IndexOps)
    => /\ inflight.options = "full"
       /\ inflight.location =
             IF call.op = "get_k_index" /\ call.location # LocNone
             THEN call.location
             ELSE AustralianRegion

C11_Witness ==
    /\ pc = "posting"
    /\ call.op = "get_k_index"
    /\ call.location = "Hobart"
    /\ inflight.location = "Hobart"

\* C12: every invocation of a public operation issues at most one request,
\* whatever invocations came before it and however it ends; an invocation
\* that ended, with records or with an error, has no request outstanding.
C12_AtMostOneRequestPerInvocation ==
    /\ posts <= 1
    /\ pc \in {"waiting", "done"} => inflight = NoRequest
    /\ pc = "done" => awaiting = "none"
    /\ (pc = "done" /\ outcome.resp # NoResponse) => posts = 1

C12_Witness ==
    /\ pc = "done"
    /\ outcome.op = "get_mag_warning"
    /\ outcome.exc = RequestFailed
    /\ outcome.resp.status = 500
    /\ posts = 1

\* C13 (as claimed): a datetime t passed as start (or end), serialized into
\* the request and echoed back as a timestamp field, is parsed to a point in
\* time identical to t, for every t, sub-second component included.
Echoed == pc = "done" /\ outcome.op \in IndexOps /\ outcome.resp # NoResponse
EchoedArgument == IF Elements[1].id = 1 THEN call.start ELSE call.end

C13_RoundTripIsIdentity ==
    (Echoed /\ IsDatetime(EchoedArgument))
    => /\ Returned
       /\ \A j \in DOMAIN Keys : outcome.records[1].times[j] = EchoedArgument

\* C13 (amended): the echoed string is parsed to t with its sub-second
\* component dropped, so to t itself exactly when t has whole seconds.
C13_RoundTripDropsSubSecond ==
    (Echoed /\ IsDatetime(EchoedArgument))
    => /\ Returned
       /\ \A j \in DOMAIN Keys :
            /\ outcome.records[1].times[j] =
                   Datetime(EchoedArgument.day, EchoedArgument.sec, 0)
            /\ (outcome.records[1].times[j] = EchoedArgument) <=> (EchoedArgument.us = 0)

C13_Witness ==
    /\ Echoed
    /\ outcome.op = "get_k_index"
    /\ call.end = Datetime(MaxDay, MaxSec, 1)
    /\ Elements[1].id = 2
    /\ Returned
    /\ outcome.records[1].times[2] = Datetime(MaxDay, MaxSec, 0)

\* C14: in every index request that is sent, start and end are each the
\* empty string or a string of exactly the form YYYY-MM-DD HH:mm:ss; a
\* datetime is serialized to that form and no other caller string gets in.
ExactForm(v) == v.form \in {"empty", "full"}

C14_SentTimesAreEmptyOrExactForm ==
    (pc = "posting" /\ call.op \in IndexOps)
    => /\ ExactForm(inflight.start)
       /\ ExactForm(inflight.end)
       /\ IsDatetime(call.start) => inflight.start = FullStr(call.start.day, call.start.sec)
       /\ call.start = EmptyStr => inflight.start = EmptyStr

\* C15: AuroraOutlook and AuroraWatch records both have exactly the fields
\* issue_time, start_date, end_date, cause, k_aus, lat_band, comments, and
\* in a record returned by get_aurora_outlook the field named start_date
\* holds the parsed start_date of the response element.
OutlookShape ==
    <<"issue_time", "start_date", "end_date", "cause", "k_aus", "lat_band", "comments">>
FieldsOf(record) == FieldNames(record.kind) \o ScalarFieldNames(record.kind)

C15_OutlookAndWatchHaveTheSameFields ==
    (/\ AnsweredWithData
     /\ Returned
     /\ outcome.op \in {"get_aurora_outlook", "get_aurora_watch"})
    => \A i \in DOMAIN outcome.records :
          LET record == outcome.records[i]
          IN  /\ FieldsOf(record) = OutlookShape
              /\ ("start_date" \in DOMAIN Elements[i].ts)
                 => \E j \in DOMAIN record.times :
                       /\ FieldNames(record.kind)[j] = "start_date"
                       /\ record.times[j] = two_formats(Elements[i].ts["start_date"])

\* C16: an endpoint request is issued only for a client whose probe came
\* back with success (HTTP 200) and carries exactly the credential given to
\* the constructor; a construction whose probe came back with 403 or any
\* other failure stores no credential, so no endpoint request follows it.
\* Step by step: the credential changes only when a probe response
\* arrives, to the constructor's argument on 200 and to nothing otherwise,
\* and every endpoint request is made with the stored credential.
ProbeAnswered == call.op = "__init__" /\ pc = "waiting" /\ pc' = "done"
EndpointRequested == pc = "idle" /\ pc' = "posting" /\ call'.op \in EndpointOps

C16_Step ==
    /\ ProbeAnswered
       => IF outcome'.resp.status = 200
          THEN api_key' = call.key /\ outcome'.exc = "none"
          ELSE api_key' = NoKey /\ outcome'.exc # "none"
    /\ ~ProbeAnswered => api_key' = api_key
    /\ EndpointRequested => api_key # NoKey /\ inflight'.api_key = api_key

C16_EndpointRequestsOnlyAfterSuccessfulProbe == [][C16_Step]_vars

\* C17: with calls interleaved in any order on the same client and on
\* different clients, each call's outcome is the one its own arguments and
\* its own response determine, its request carries the credential of its
\* own client, and a client's stored credential is never changed by a call.
OwnOutcome(t) ==
    LET args == call[t].args
    IN  IF awaiting[t] = NoResponse
        THEN /\ BadArgument(args.start)
             /\ Error(outcome[t]) = MalformedTimeRange
             /\ posts[t] = 0
        ELSE /\ outcome[t].resp = awaiting[t]
             /\ outcome[t].op = args.op
             /\ (awaiting[t].status # 200) <=> (outcome[t].exc = RequestFailed)
             /\ outcome[t].exc = RequestFailed => outcome[t].msg = awaiting[t].message
             /\ awaiting[t].status = 200
                => /\ outcome[t].exc = "none"
                   /\ Len(outcome[t].records) = Len(awaiting[t].list)
                   /\ \A i \in DOMAIN awaiting[t].list :
                         /\ outcome[t].records[i].id = awaiting[t].list[i].id
                         /\ outcome[t].records[i].kind = KindOfOp(args.op)
             /\ inflight[t].api_key = ClientKey(call[t].client)
             /\ inflight[t].start = args.start
             /\ posts[t] = 1

CallsAreIndependent ==
    \A t \in Threads :
        (pc[t] = "done" /\ call[t].args.op \in EndpointOps) => OwnOutcome(t)
CredentialKept ==
    \A c \in Clients : api_key[c] # NoKey => api_key'[c] = api_key[c]

C17_InterleavedCallsAreIndependent == []CallsAreIndependent /\ [][CredentialKept]_vars

C17_Witness ==
    /\ pc[1] = "done"
    /\ pc[2] = "received"
    /\ call[1].client = call[2].client
    /\ call[1].args.op = "get_mag_alert"
    /\ call[2].args.op = "get_mag_alert"
    /\ awaiting[1].status = 200
    /\ awaiting[2].status = 500
    /\ Len(outcome[1].records) = 1
    /\ api_key["client_2"] = "0000"

\* C18: the response mapping of every endpoint is pure: the decoded payload
\* is the same after the mapping as before (no key added, no value
\* replaced), the mapping makes no request of its own, and mapping the
\* same payload again gives the same records or the same error.
EndpointOfOp(op) ==
    CASE op = "get_aurora_outlook" -> "outlook"
      [] op = "get_aurora_watch" -> "watch"
      [] op = "get_aurora_alert" -> "alert"
      [] op = "get_mag_alert" -> "mag-alert"
      [] op = "get_mag_warning" -> "mag-warning"
      [] op = "get_a_index" -> "a-index"
      [] op = "get_k_index" -> "k-index"
      [] op = "get_dst_index" -> "dst-index"
MappedAgain ==
    handle_response(EndpointOfOp(outcome.op),
                    [outcome.resp EXCEPT !.list = outcome.payload])

C18_MappingIsPure ==
    AnsweredWithData
    => /\ outcome.payload = outcome.resp.list
       /\ posts = 1
       /\ MappedAgain.exc = outcome.exc
       /\ MappedAgain.records = outcome.records

\* C19: mapping is all-or-nothing.  For every endpoint, when an element of
\* the element list cannot be mapped (a timestamp that matches neither
\* format, or a required field that is missing), the call fails with the
\* error of the first such element and returns no records at all.
CannotBeMapped(element) ==
    \/ ~element.scalars
    \/ \E k \in DOMAIN element.ts : element.ts[k].form = "other"
FirstFailing ==
    CHOOSE i \in DOMAIN Elements :
        /\ CannotBeMapped(Elements[i])
        /\ \A j \in 1..(i - 1) : ~CannotBeMapped(Elements[j])

MappingRaises(element) == map_element(EndpointOfOp(outcome.op), element).exc # "none"

C19_MappingIsAllOrNothing ==
    /\ (AnsweredWithData /\ \E i \in DOMAIN Elements : CannotBeMapped(Elements[i]))
       => /\ ~Returned
          /\ outcome.records = <<>>
          /\ outcome.exc \in {"ValueError", "KeyError"}
          /\ outcome.exc = map_element(EndpointOfOp(outcome.op), Elements[FirstFailing]).exc
    /\ (AnsweredWithData /\ \E i \in DOMAIN Elements : MappingRaises(Elements[i]))
       => ~Returned /\ outcome.records = <<>>

C19_Witness ==
    /\ AnsweredWithData
    /\ outcome.op = "get_dst_index"
    /\ Len(Elements) = 2
    /\ ~CannotBeMapped(Elements[1])
    /\ Elements[2].ts = [valid_time |-> OtherStr]
    /\ Elements[2].scalars
    /\ Error(outcome) = MalformedResponse
    /\ outcome.records = <<>>

====
